---- MODULE Spec2Model ----
(***************************************************************************)
(* Chat API of xat-api (controllers/chatController.js): the prompt         *)
(* lifecycle (registerPrompt, handleNormalResponse, the streaming relay of  *)
(* handleStreamingResponse / processStreamingResponse) and the conversation *)
(* lookup (getConversation), as interleaved on the Node event loop.         *)
(*                                                                         *)
(* Every action is one run-to-completion slice of a handler: from the       *)
(* resumption of an await (or the arrival of an event) to the next await.   *)
(* An exception nothing catches (a listener that throws, an async listener   *)
(* that rejects) either kills the process or is survived, as the runtime's  *)
(* configuration decides; nothing runs once the process has died.           *)
(* Texts are sequences of one-character strings.                            *)
(***************************************************************************)
EXTENDS Integers, Sequences, FiniteSets, TLC

\* ------------------------------------------------------------------ bounds
NumReq == 2          \* HTTP requests in flight
MaxData == 2         \* 'data' events one upstream stream delivers
NumClientIds == 1    \* distinct well-formed identifiers clients supply

Req == 1..NumReq

\* ------------------------------------------------------------------- texts
Space == " "
Apology == <<"!">>   \* 'Ho sento, no he pogut generar una resposta ...'

RECURSIVE TrimStart(_)
TrimStart(s) ==
    IF s # <<>> /\ Head(s) = Space THEN TrimStart(Tail(s)) ELSE s

RECURSIVE TrimEnd(_)
TrimEnd(s) ==
    IF s # <<>> /\ s[Len(s)] = Space THEN TrimEnd(SubSeq(s, 1, Len(s) - 1)) ELSE s

\* String.prototype.trim
Trim(s) == TrimEnd(TrimStart(s))

\* --------------------------------------------------------------- identifiers
\* An identifier is a pair; the empty tuple is the absent (falsy) identifier.
NoId == <<>>
ClientIds == {<<"u", k>> : k \in 1..NumClientIds}
MalformedId == <<"x", 0>>
GenId(n) == <<"g", n>>

\* middleware/validators: a well-formed UUID
validateUUID(id) == id \in ClientIds \/ (id # NoId /\ id[1] = "g")

\* ------------------------------------------------------------ request bodies
\* req.body of POST /prompt.  hasPrompt = FALSE: the prompt field is missing.
PromptTexts == {<<>>, <<Space>>, <<"p", Space>>}
PromptBodies ==
    [conversationId : {NoId, MalformedId} \cup ClientIds,
     hasPrompt : {TRUE}, prompt : PromptTexts, stream : BOOLEAN]
    \cup
    [conversationId : {NoId} \cup ClientIds,
     hasPrompt : {FALSE}, prompt : {<<>>}, stream : {FALSE}]

NoBody == [conversationId |-> NoId, hasPrompt |-> FALSE, prompt |-> <<>>, stream |-> FALSE]

\* (variant: the prompt is tested without trimming it)
PromptIsEmptyUntrimmed(b) == ~b.hasPrompt \/ b.prompt = <<>>

\* !prompt?.trim()
PromptIsEmpty(b) == ~b.hasPrompt \/ Trim(b.prompt) = <<>>

\* ------------------------------------------------------------ upstream data
\* One 'data' event of the upstream stream: a JSON line {response, done}, or
\* bytes JSON.parse rejects.
Fragments == {<<>>, <<"a">>, <<"b">>}
DataEvents ==
    [ok : {TRUE}, response : Fragments, done : BOOLEAN]
    \cup [ok : {FALSE}, response : {<<>>}, done : {FALSE}]

\* Outcomes of the non-streaming generate call: a full text, or a failure.
FullTexts == {<<"a">>, <<Space, "a", Space>>}

RECURSIVE Concat(_)
Concat(ss) == IF ss = <<>> THEN <<>> ELSE Head(ss) \o Concat(Tail(ss))

VARIABLES
    conversations,   \* Conversation table: sequence of records, creation order
    prompts,         \* Prompt table: records in storage order; the index is the id
    nextGen,         \* generated identifiers handed out so far
    sentiments,      \* SentimentAnalysis table: sequence of records
    crashed,         \* the process died of an uncaught exception
    kind,            \* per request: "none" | "prompt" | "lookup" | "sentiment" | "models"
    pc,              \* per request: position of its handler
    body,            \* per request: req.body
    conversation,    \* per request: the resolved conversation's id
    newPrompt,       \* per request: id of the Prompt it created (0: none)
    createdAt,       \* per request: timestamp of its Prompt.create call (0: none)
    ollamaResponse,  \* per request: text held by handleNormalResponse
    fullResponse,    \* per request: accumulator of processStreamingResponse
    received,        \* per request: 'data' events delivered so far
    upstream,        \* per request: "none" | "pending" | "open" | "done" | "error" | "ended"
    upstreamCalls,   \* per request: generate calls issued
    sse,             \* per request: events written with res.write
    resEnded,        \* per request: res.end() / res.json() was called
    clientClosed,    \* per request: the client closed its connection
    status,          \* per request: HTTP status answered (0: none)
    json,            \* per request: JSON body answered
    exercici2,       \* the batch review script: its inputs, locals and position
    exercici3        \* the batch image script: its inputs, locals and position

store == <<conversations, prompts, nextGen, sentiments>>
relay == <<ollamaResponse, fullResponse, received, upstream, upstreamCalls>>
reply == <<sse, resEnded, status, json>>
api == <<conversations, prompts, nextGen, sentiments, crashed, kind, pc, body, conversation,
         newPrompt, createdAt, ollamaResponse, fullResponse, received, upstream,
         upstreamCalls, sse, resEnded, clientClosed, status, json>>
vars == <<api, exercici2, exercici3>>

\* A batch script that is not running
NoStatistics == [positive |-> 0, negative |-> 0, neutral |-> 0, error |-> 0]
NoAnswer == [type |-> "none", text |-> <<>>]
Exercici2Off ==
    [pc |-> "off", games |-> <<>>, reviews |-> <<>>, gameIndex |-> 0, reviewIndex |-> 0,
     statistics |-> NoStatistics, results |-> <<>>, fetching |-> 0,
     lastAnswer |-> NoAnswer, written |-> 0]
Exercici3Off ==
    [pc |-> "off", animalDirectories |-> <<>>, imageFiles |-> <<>>, dirIndex |-> 0,
     fileIndex |-> 0, visited |-> <<>>, analisis |-> <<>>, fetching |-> 0, written |-> 0]

NoJson == [conversationId |-> NoId, promptId |-> 0, prompt |-> <<>>,
           response |-> <<>>, Prompts |-> <<>>]

\* The API process after start-up
ApiInit ==
    /\ conversations = <<>>
    /\ prompts = <<>>
    /\ nextGen = 0
    /\ sentiments = <<>>
    /\ crashed = FALSE
    /\ kind = [r \in Req |-> "none"]
    /\ pc = [r \in Req |-> "idle"]
    /\ body = [r \in Req |-> NoBody]
    /\ conversation = [r \in Req |-> NoId]
    /\ newPrompt = [r \in Req |-> 0]
    /\ createdAt = [r \in Req |-> 0]
    /\ ollamaResponse = [r \in Req |-> <<>>]
    /\ fullResponse = [r \in Req |-> <<>>]
    /\ received = [r \in Req |-> <<>>]
    /\ upstream = [r \in Req |-> "none"]
    /\ upstreamCalls = [r \in Req |-> 0]
    /\ sse = [r \in Req |-> <<>>]
    /\ resEnded = [r \in Req |-> FALSE]
    /\ clientClosed = [r \in Req |-> FALSE]
    /\ status = [r \in Req |-> 0]
    /\ json = [r \in Req |-> NoJson]

Init ==
    /\ ApiInit
    /\ exercici2 = Exercici2Off
    /\ exercici3 = Exercici3Off

\* ------------------------------------------------------- Conversation Store
ConversationIds == {conversations[i].id : i \in 1..Len(conversations)}

\* Conversation.findByPk
findByPk(id) == id \in ConversationIds

\* (variant: the table has no unique key)
ConversationCreateAcceptsAny(id) == TRUE

\* Conversation.create: the primary key rejects a second record with the id
ConversationCreateAccepts(id) == id \notin ConversationIds

\* (variant: no order clause, the rows come in storage order)
PromptsOfStoreOrder(id) == SelectSeq(prompts, LAMBDA p : p.ConversationId = id)

\* include Prompt with order [[Prompt, 'createdAt', 'ASC']], lines 366-372: the
\* Prompt rows of one conversation, in whatever order they are stored, sorted
\* by createdAt ascending
PromptsOf(id) ==
    LET rows == {i \in 1..Len(prompts) : prompts[i].ConversationId = id}
        rank(i) == Cardinality({j \in rows : prompts[j].createdAt < prompts[i].createdAt}) + 1
    IN  [k \in 1..Cardinality(rows) |-> prompts[CHOOSE i \in rows : rank(i) = k]]

\* The timestamp Sequelize gives a record when create() is called: later than
\* every timestamp given before
Latest ==
    LET given == {prompts[i].createdAt : i \in 1..Len(prompts)}
                 \cup {createdAt[r] : r \in Req} \cup {0}
    IN  CHOOSE t \in given : \A u \in given : u <= t

Now == Latest + 1

\* (variant: the Prompt is stored without its conversation)
PromptRecordUnattached(r, cid, text, response, stream) ==
    [id |-> Len(prompts) + 1, ConversationId |-> NoId, prompt |-> text,
     response |-> response, stream |-> stream, createdAt |-> createdAt[r],
     createdBy |-> r, updates |-> 0]

\* Prompt.create
\* (createdBy and updates are history fields: the creating request, the number
\* of updates applied)
PromptRecord(r, cid, text, response, stream) ==
    [id |-> Len(prompts) + 1, ConversationId |-> cid, prompt |-> text,
     response |-> response, stream |-> stream, createdAt |-> createdAt[r],
     createdBy |-> r, updates |-> 0]

\* (variant: the update goes to the Prompt stored last)
PromptUpdatedLatest(id, response) ==
    [prompts EXCEPT ![Len(prompts)].response = response, ![Len(prompts)].updates = @ + 1]

\* (variant: the update is applied to every Prompt)
PromptUpdatedAll(id, response) ==
    [i \in 1..Len(prompts) |->
        [prompts[i] EXCEPT !.response = response, !.updates = @ + 1]]

\* (variant: the update changes nothing)
PromptUpdatedNothing(id, response) == prompts

\* prompt.update({ response })
PromptUpdated(id, response) ==
    [prompts EXCEPT ![id].response = response, ![id].updates = @ + 1]

\* ---------------------------------------------------------------- responses
\* res.status(code).json(...)
Answer(r, code, obj) ==
    /\ status' = [status EXCEPT ![r] = code]
    /\ json' = [json EXCEPT ![r] = obj]
    /\ resEnded' = [resEnded EXCEPT ![r] = TRUE]

\* An SSE event; toClosed records that the client had already gone away
Event(r, type, cid, pid, text) ==
    [type |-> type, conversationId |-> cid, promptId |-> pid, text |-> text,
     toClosed |-> clientClosed[r]]


\* ------------------------------------------------------------ registerPrompt
\* registerPrompt, lines 191-195: hand over to one of the two response paths,
\* up to its first await (Prompt.create, or the axios.post of generateResponse)
Dispatch(r, stream) ==
    IF stream
    THEN /\ pc' = [pc EXCEPT ![r] = "promptCreate"]
         /\ createdAt' = [createdAt EXCEPT ![r] = Now]
         /\ UNCHANGED <<upstream, upstreamCalls>>
    ELSE /\ pc' = [pc EXCEPT ![r] = "generate"]
         /\ UNCHANGED createdAt
         /\ upstream' = [upstream EXCEPT ![r] = "pending"]
         /\ upstreamCalls' = [upstreamCalls EXCEPT ![r] = @ + 1]

\* (variant: the supplied identifier is not validated)
RejectsEmptyPromptOnly(b) == PromptIsEmpty(b)

\* registerPrompt, lines 165-177: the two validations answered 400
Rejects(b) ==
    PromptIsEmpty(b) \/ (b.conversationId # NoId /\ ~validateUUID(b.conversationId))

\* POST /prompt arrives: validation, then the first store call.  Requests are
\* numbered in arrival order.
RegisterPrompt(r, b) ==
    /\ ~crashed
    /\ UNCHANGED <<exercici2, exercici3>>
    /\ UNCHANGED createdAt
    /\ pc[r] = "idle"
    /\ \A q \in 1..(r - 1) : pc[q] # "idle"
    /\ kind' = [kind EXCEPT ![r] = "prompt"]
    /\ body' = [body EXCEPT ![r] = b]
    /\ IF Rejects(b)
       THEN /\ Answer(r, 400, NoJson)
            /\ pc' = [pc EXCEPT ![r] = "done"]
       ELSE /\ pc' = [pc EXCEPT ![r] =
                        IF b.conversationId # NoId THEN "findByPk" ELSE "create"]
            /\ UNCHANGED <<status, json, resEnded>>
    /\ UNCHANGED <<store, crashed, conversation, newPrompt, relay, sse, clientClosed>>

\* Conversation.findByPk(conversationId) resolves
FindByPkReturns(r) ==
    /\ ~crashed
    /\ UNCHANGED <<exercici2, exercici3>>
    /\ pc[r] = "findByPk"
    /\ IF findByPk(body[r].conversationId)
       THEN /\ conversation' = [conversation EXCEPT ![r] = body[r].conversationId]
            /\ Dispatch(r, body[r].stream)
       ELSE /\ pc' = [pc EXCEPT ![r] = "create"]
            /\ UNCHANGED <<conversation, createdAt, upstream, upstreamCalls>>
    /\ UNCHANGED <<store, crashed, kind, body, newPrompt, ollamaResponse,
                   fullResponse, received, reply, clientClosed>>

\* (variant: create() is called without the supplied identifier)
CreatedIdGenerated(supplied) == GenId(nextGen + 1)

\* The identifier of the record Conversation.create makes: the supplied one
\* (line 183), or a generated UUID when create() gets none (line 187)
CreatedId(supplied) == IF supplied # NoId THEN supplied ELSE GenId(nextGen + 1)

\* Conversation.create(...) settles: the record is stored, or the duplicate key
\* is rejected and the catch of registerPrompt hands the error to next()
ConversationCreateReturns(r) ==
    /\ ~crashed
    /\ UNCHANGED <<exercici2, exercici3>>
    /\ pc[r] = "create"
    /\ LET id == CreatedId(body[r].conversationId)
       IN  /\ nextGen' = IF id = body[r].conversationId THEN nextGen ELSE nextGen + 1
           /\ IF ConversationCreateAccepts(id)
              THEN /\ conversations' = Append(conversations, [id |-> id, createdBy |-> r])
                   /\ conversation' = [conversation EXCEPT ![r] = id]
                   /\ Dispatch(r, body[r].stream)
                   /\ UNCHANGED <<status, json, resEnded>>
              ELSE /\ Answer(r, 500, NoJson)
                   /\ pc' = [pc EXCEPT ![r] = "done"]
                   /\ UNCHANGED <<conversations, conversation, createdAt, upstream, upstreamCalls>>
    /\ UNCHANGED <<prompts, sentiments, crashed, kind, body, newPrompt,
                   ollamaResponse, fullResponse, received, sse, clientClosed>>

\* ------------------------------------------- generateResponse (non-streaming)
\* (variant: the upstream text is returned as received)
generateResponseUntrimmed(ok, text) == IF ok THEN text ELSE Apology

\* (variant: the catch block resolves with no text at all)
generateResponseNoApology(ok, text) == IF ok THEN Trim(text) ELSE <<>>

\* The text generateResponse resolves with: the upstream text trimmed, or the
\* apology of its catch block
generateResponse(ok, text) == IF ok THEN Trim(text) ELSE Apology

\* The axios.post of generateResponse settles; handleNormalResponse goes on to
\* call Prompt.create
GenerateReturns(r, ok, text) ==
    /\ ~crashed
    /\ UNCHANGED <<exercici2, exercici3>>
    /\ pc[r] = "generate"
    /\ createdAt' = [createdAt EXCEPT ![r] = Now]
    /\ ollamaResponse' = [ollamaResponse EXCEPT ![r] = generateResponse(ok, text)]
    /\ upstream' = [upstream EXCEPT ![r] = IF ok THEN "done" ELSE "error"]
    /\ received' = [received EXCEPT ![r] = <<[ok |-> ok, response |-> text, done |-> TRUE]>>]
    /\ pc' = [pc EXCEPT ![r] = "promptCreateNormal"]
    /\ UNCHANGED <<store, crashed, kind, body, conversation, newPrompt,
                   fullResponse, upstreamCalls, reply, clientClosed>>

\* ------------------------------------------------------ handleNormalResponse
\* Prompt.create resolves; the client is answered 201
PromptCreatedNormal(r) ==
    /\ ~crashed
    /\ UNCHANGED <<exercici2, exercici3>>
    /\ UNCHANGED createdAt
    /\ pc[r] = "promptCreateNormal"
    /\ LET rec == PromptRecord(r, conversation[r], Trim(body[r].prompt),
                               ollamaResponse[r], FALSE)
       IN  /\ prompts' = Append(prompts, rec)
           /\ newPrompt' = [newPrompt EXCEPT ![r] = rec.id]
           /\ Answer(r, 201, [NoJson EXCEPT !.conversationId = conversation[r],
                                            !.promptId = rec.id,
                                            !.prompt = rec.prompt,
                                            !.response = rec.response])
    /\ pc' = [pc EXCEPT ![r] = "done"]
    /\ UNCHANGED <<conversations, nextGen, sentiments, crashed, kind, body,
                   conversation, relay, sse, clientClosed>>

\* --------------------------------------------------- handleStreamingResponse
\* (variant: the start event carries no identifiers)
StartEventsNoIds(r, cid, pid, text) == <<Event(r, "start", NoId, 0, text)>>

\* (variant: no start event is written)
StartEventsNone(r, cid, pid, text) == <<>>

\* The event written before the upstream call, lines 229-234
StartEvents(r, cid, pid, text) == <<Event(r, "start", cid, pid, text)>>

\* Prompt.create resolves; the start event is written and
\* processStreamingResponse issues its axios.post
PromptCreatedStreaming(r) ==
    /\ ~crashed
    /\ UNCHANGED <<exercici2, exercici3>>
    /\ UNCHANGED createdAt
    /\ pc[r] = "promptCreate"
    /\ LET rec == PromptRecord(r, conversation[r], Trim(body[r].prompt), <<>>, TRUE)
       IN  /\ prompts' = Append(prompts, rec)
           /\ newPrompt' = [newPrompt EXCEPT ![r] = rec.id]
           /\ sse' = [sse EXCEPT ![r] =
                        @ \o StartEvents(r, conversation[r], rec.id, rec.prompt)]
    /\ upstream' = [upstream EXCEPT ![r] = "pending"]
    /\ upstreamCalls' = [upstreamCalls EXCEPT ![r] = @ + 1]
    /\ pc' = [pc EXCEPT ![r] = "axiosPost"]
    /\ UNCHANGED <<conversations, nextGen, sentiments, crashed, kind, body,
                   conversation, ollamaResponse, fullResponse, received, resEnded,
                   clientClosed, status, json>>

\* (variant: the catch block writes nothing)
FailureEventsNone(r) == <<>>

\* The event written by the catch of handleStreamingResponse, lines 243-246
FailureEvents(r) == <<Event(r, "error", NoId, 0, <<>>)>>

\* The axios.post of processStreamingResponse settles: the listeners are
\* registered, or the catch of handleStreamingResponse writes the error event
AxiosPostReturns(r, ok) ==
    /\ ~crashed
    /\ UNCHANGED <<exercici2, exercici3>>
    /\ UNCHANGED createdAt
    /\ pc[r] = "axiosPost"
    /\ IF ok
       THEN /\ upstream' = [upstream EXCEPT ![r] = "open"]
            /\ pc' = [pc EXCEPT ![r] = "streaming"]
            /\ UNCHANGED <<sse, resEnded>>
       ELSE /\ upstream' = [upstream EXCEPT ![r] = "error"]
            /\ sse' = [sse EXCEPT ![r] = @ \o FailureEvents(r)]
            /\ resEnded' = [resEnded EXCEPT ![r] = TRUE]
            /\ pc' = [pc EXCEPT ![r] = "failed"]
    /\ UNCHANGED <<store, crashed, kind, body, conversation, newPrompt,
                   ollamaResponse, fullResponse, received, upstreamCalls,
                   clientClosed, status, json>>

\* -------------------------------------------------- processStreamingResponse
\* (variant: the fragment replaces the accumulated text)
AccumulateLast(acc, fragment) == fragment

\* (variant: the fragment is put in front of the accumulated text)
AccumulatePrepended(acc, fragment) == fragment \o acc

\* fullResponse += parsedChunk.response
Accumulate(acc, fragment) == acc \o fragment

\* The 'data' listener, up to its only await (prompt.update).  Bytes that
\* JSON.parse rejects make the async listener reject, which nothing handles.
OnData(r, d) ==
    /\ ~crashed
    /\ UNCHANGED <<exercici2, exercici3>>
    /\ UNCHANGED createdAt
    /\ pc[r] = "streaming"
    /\ upstream[r] = "open"
    /\ Len(received[r]) < MaxData
    /\ received' = [received EXCEPT ![r] = Append(@, d)]
    /\ IF d.ok
       THEN /\ IF d.response # <<>>
               THEN /\ fullResponse' = [fullResponse EXCEPT ![r] = Accumulate(@, d.response)]
                    /\ sse' = [sse EXCEPT ![r] =
                                 Append(@, Event(r, "chunk", conversation[r],
                                                 newPrompt[r], d.response))]
               ELSE UNCHANGED <<fullResponse, sse>>
            /\ IF d.done
               THEN /\ upstream' = [upstream EXCEPT ![r] = "done"]
                    /\ pc' = [pc EXCEPT ![r] = "update"]
               ELSE UNCHANGED <<upstream, pc>>
            /\ UNCHANGED crashed
       ELSE /\ crashed' \in BOOLEAN
            /\ UNCHANGED <<fullResponse, sse, upstream, pc>>
    /\ UNCHANGED <<store, kind, body, conversation, newPrompt, ollamaResponse,
                   upstreamCalls, resEnded, clientClosed, status, json>>

\* prompt.update settles inside the 'data' listener: the end event is written
\* and the response ended, or the listener rejects
PromptUpdateReturns(r, ok) ==
    /\ ~crashed
    /\ UNCHANGED <<exercici2, exercici3>>
    /\ UNCHANGED createdAt
    /\ pc[r] = "update"
    /\ IF ok
       THEN /\ prompts' = PromptUpdated(newPrompt[r], fullResponse[r])
            /\ sse' = [sse EXCEPT ![r] =
                         Append(@, Event(r, "end", conversation[r], newPrompt[r],
                                         fullResponse[r]))]
            /\ resEnded' = [resEnded EXCEPT ![r] = TRUE]
            /\ pc' = [pc EXCEPT ![r] = "finalized"]
            /\ UNCHANGED crashed
       ELSE /\ pc' = [pc EXCEPT ![r] = "rejected"]
            /\ crashed' \in BOOLEAN
            /\ UNCHANGED <<prompts, sse, resEnded>>
    /\ UNCHANGED <<conversations, nextGen, sentiments, kind, body, conversation,
                   newPrompt, relay, clientClosed, status, json>>

\* The 'error' listener: it rethrows, outside every try block
OnError(r) ==
    /\ ~crashed
    /\ UNCHANGED <<exercici2, exercici3>>
    /\ UNCHANGED createdAt
    /\ pc[r] = "streaming"
    /\ upstream[r] = "open"
    /\ upstream' = [upstream EXCEPT ![r] = "error"]
    /\ crashed' \in BOOLEAN
    /\ UNCHANGED <<store, kind, pc, body, conversation, newPrompt, ollamaResponse,
                   fullResponse, received, upstreamCalls, reply, clientClosed>>

\* The upstream stream ends without a done marker: no listener is registered
OnEnd(r) ==
    /\ ~crashed
    /\ UNCHANGED <<exercici2, exercici3>>
    /\ UNCHANGED createdAt
    /\ pc[r] = "streaming"
    /\ upstream[r] = "open"
    /\ upstream' = [upstream EXCEPT ![r] = "ended"]
    /\ UNCHANGED <<store, crashed, kind, pc, body, conversation, newPrompt,
                   ollamaResponse, fullResponse, received, upstreamCalls, reply,
                   clientClosed>>

\* The client of a streaming request closes its connection
ClientDisconnect(r) ==
    /\ ~crashed
    /\ UNCHANGED <<exercici2, exercici3>>
    /\ UNCHANGED createdAt
    /\ pc[r] \in {"promptCreate", "axiosPost", "streaming", "update"}
    /\ ~clientClosed[r]
    /\ ~resEnded[r]
    /\ clientClosed' = [clientClosed EXCEPT ![r] = TRUE]
    /\ UNCHANGED <<store, crashed, kind, pc, body, conversation, newPrompt,
                   relay, reply>>

\* ----------------------------------------------------------- getConversation
\* GET /conversation/:id arrives
GetConversation(r, id) ==
    /\ ~crashed
    /\ UNCHANGED <<exercici2, exercici3>>
    /\ UNCHANGED createdAt
    /\ pc[r] = "idle"
    /\ \A q \in 1..(r - 1) : pc[q] # "idle"
    /\ kind' = [kind EXCEPT ![r] = "lookup"]
    /\ body' = [body EXCEPT ![r] = [NoBody EXCEPT !.conversationId = id]]
    /\ IF ~validateUUID(id)
       THEN /\ Answer(r, 400, NoJson)
            /\ pc' = [pc EXCEPT ![r] = "done"]
       ELSE /\ pc' = [pc EXCEPT ![r] = "lookupFind"]
            /\ UNCHANGED <<status, json, resEnded>>
    /\ UNCHANGED <<store, crashed, conversation, newPrompt, relay, sse, clientClosed>>

\* (variant: a lookup of an unknown identifier creates the conversation)
LookupFindReturnsCreating(r) ==
    /\ ~crashed
    /\ UNCHANGED <<exercici2, exercici3>>
    /\ UNCHANGED createdAt
    /\ pc[r] = "lookupFind"
    /\ conversations' =
          IF findByPk(body[r].conversationId) THEN conversations
          ELSE Append(conversations, [id |-> body[r].conversationId, createdBy |-> r])
    /\ pc' = [pc EXCEPT ![r] = "lookupInclude"]
    /\ UNCHANGED <<prompts, nextGen, sentiments, crashed, kind, body, conversation,
                   newPrompt, relay, reply, clientClosed>>

\* The first findByPk resolves
LookupFindReturns(r) ==
    /\ ~crashed
    /\ UNCHANGED <<exercici2, exercici3>>
    /\ UNCHANGED createdAt
    /\ pc[r] = "lookupFind"
    /\ IF findByPk(body[r].conversationId)
       THEN /\ pc' = [pc EXCEPT ![r] = "lookupInclude"]
            /\ UNCHANGED <<status, json, resEnded>>
       ELSE /\ Answer(r, 404, NoJson)
            /\ pc' = [pc EXCEPT ![r] = "done"]
    /\ UNCHANGED <<store, crashed, kind, body, conversation, newPrompt, relay,
                   sse, clientClosed>>

\* The findByPk with the included Prompts resolves; res.json answers 200
LookupIncludeReturns(r) ==
    /\ ~crashed
    /\ UNCHANGED <<exercici2, exercici3>>
    /\ UNCHANGED createdAt
    /\ pc[r] = "lookupInclude"
    /\ Answer(r, 200, [NoJson EXCEPT !.conversationId = body[r].conversationId,
                                     !.Prompts = PromptsOf(body[r].conversationId)])
    /\ pc' = [pc EXCEPT ![r] = "done"]
    /\ UNCHANGED <<store, crashed, kind, body, conversation, newPrompt, relay,
                   sse, clientClosed>>

\* ----------------------------------------------------------- analyzeSentiment
\* Model output is a sequence of atoms: the code fence, the word json, white
\* space, the braces of an object, a score, the characters of a label, the
\* literal null, or anything else.  The text of an object is
\* { score? label-characters }.
Fence == "~~~"              \* the three backquotes of a code fence
JsonTag == "json"
NumberAtoms == {"-3", "0", "7", "10", "15"}
NumberOf == ("-3" :> (0 - 3)) @@ ("0" :> 0) @@ ("7" :> 7) @@ ("10" :> 10) @@ ("15" :> 15)
StringScore == "s"          \* a score that is a JSON string, not a number
LabelAtoms == {"p", Fence}  \* characters a sentiment label is made of

ObjectText(score, label) == <<"{">> \o score \o label \o <<"}">>

ObjectTexts ==
    {ObjectText(sc, lb) :
        sc \in {<<>>, <<StringScore>>} \cup {<<n>> : n \in NumberAtoms},
        lb \in {<<>>, <<"p">>, <<Fence>>, <<"p", Fence>>}}

\* What the model may answer: an object, bare or inside a fence with or
\* without the json tag, the literal null, or prose
FencedJson(text) == <<Fence, JsonTag, Space>> \o text \o <<Space, Fence>>
FencedPlain(text) == <<Fence, Space>> \o text \o <<Space, Fence>>

ModelOutputs ==
    ObjectTexts \cup {FencedJson(t) : t \in ObjectTexts}
    \cup {FencedPlain(t) : t \in ObjectTexts} \cup {<<"null">>, <<"?">>, <<Space, "?">>}

\* req.body of POST /sentiment-analysis
SentimentBodies ==
    {[hasText |-> FALSE, isString |-> FALSE, text |-> <<>>],
     [hasText |-> TRUE, isString |-> FALSE, text |-> <<>>],
     [hasText |-> TRUE, isString |-> TRUE, text |-> <<>>],
     [hasText |-> TRUE, isString |-> TRUE, text |-> <<Space>>],
     [hasText |-> TRUE, isString |-> TRUE, text |-> <<"t">>]}

\* (variant: only a missing text is refused)
TextIsInvalidMissingOnly(b) == ~b.hasText

\* !text || typeof text !== 'string' || text.trim() === ''
TextIsInvalid(b) == ~b.hasText \/ ~b.isString \/ b.text = <<>> \/ Trim(b.text) = <<>>

RECURSIVE SkipSpace(_)
SkipSpace(s) == IF s # <<>> /\ Head(s) = Space THEN SkipSpace(Tail(s)) ELSE s

\* jsonText.replace(/(fence)json\s*/g, '')
RECURSIVE RemoveJsonFences(_)
RemoveJsonFences(s) ==
    IF s = <<>> THEN <<>>
    ELSE IF Len(s) >= 2 /\ s[1] = Fence /\ s[2] = JsonTag
         THEN RemoveJsonFences(SkipSpace(Tail(Tail(s))))
         ELSE <<Head(s)>> \o RemoveJsonFences(Tail(s))

\* jsonText.replace(/(fence)\s*/g, '')
RECURSIVE RemoveFences(_)
RemoveFences(s) ==
    IF s = <<>> THEN <<>>
    ELSE IF Head(s) = Fence
         THEN RemoveFences(SkipSpace(Tail(s)))
         ELSE <<Head(s)>> \o RemoveFences(Tail(s))

\* lines 437-442: the markdown decoration is removed
StripMarkdown(response) ==
    LET jsonText == Trim(response)
    IN  IF Len(jsonText) >= 2 /\ jsonText[1] = Fence /\ jsonText[2] = JsonTag
        THEN RemoveFences(RemoveJsonFences(jsonText))
        ELSE IF jsonText # <<>> /\ jsonText[1] = Fence
             THEN RemoveFences(jsonText)
             ELSE jsonText

NoValue == [syntaxOk |-> FALSE, isObject |-> FALSE, hasNumber |-> FALSE,
            score |-> 0, sentiment |-> <<>>]

\* JSON.parse, on the texts above
JSONparse(text) ==
    LET t == Trim(text)
    IN  IF t = <<"null">> THEN [NoValue EXCEPT !.syntaxOk = TRUE]
        ELSE IF Len(t) < 2 \/ t[1] # "{" \/ t[Len(t)] # "}" THEN NoValue
        ELSE LET inner == SubSeq(t, 2, Len(t) - 1)
                 scored == inner # <<>> /\ inner[1] \in NumberAtoms \cup {StringScore}
                 label == IF scored THEN Tail(inner) ELSE inner
             IN  IF \E i \in 1..Len(label) : label[i] \notin LabelAtoms THEN NoValue
                 ELSE [syntaxOk |-> TRUE, isObject |-> TRUE,
                       hasNumber |-> scored /\ inner[1] \in NumberAtoms,
                       score |-> IF scored /\ inner[1] \in NumberAtoms
                                 THEN NumberOf[inner[1]] ELSE 0,
                       sentiment |-> label]

MinScore == 0
MaxScore == 10

\* (variant: the score is stored as parsed)
ClampNot(score) == score

\* Math.max(0, Math.min(10, score))
Clamp(score) ==
    LET low == IF score < MaxScore THEN score ELSE MaxScore
    IN  IF low > MinScore THEN low ELSE MinScore

\* (variant: the parsed value's fields are not validated)
ParseSentimentUnvalidated(response) ==
    LET v == JSONparse(StripMarkdown(response))
    IN  IF v.syntaxOk /\ v.isObject
        THEN [ok |-> TRUE, score |-> Clamp(v.score), sentiment |-> v.sentiment]
        ELSE [ok |-> FALSE, score |-> 0, sentiment |-> <<>>]

\* The try block of analyzeSentiment, lines 435-465: ok = FALSE is the catch
ParseSentiment(response) ==
    LET v == JSONparse(StripMarkdown(response))
    IN  IF v.syntaxOk /\ v.isObject /\ v.hasNumber /\ v.sentiment # <<>>
        THEN [ok |-> TRUE, score |-> Clamp(v.score), sentiment |-> v.sentiment]
        ELSE [ok |-> FALSE, score |-> 0, sentiment |-> <<>>]

NoSentimentJson == [id |-> 0, text |-> <<>>, score |-> 0, sentiment |-> <<>>]

\* POST /sentiment-analysis arrives: validation, then generateResponse issues
\* its axios.post
AnalyzeSentiment(r, b) ==
    /\ ~crashed
    /\ UNCHANGED <<exercici2, exercici3>>
    /\ UNCHANGED createdAt
    /\ pc[r] = "idle"
    /\ \A q \in 1..(r - 1) : pc[q] # "idle"
    /\ kind' = [kind EXCEPT ![r] = "sentiment"]
    /\ body' = [body EXCEPT ![r] = b]
    /\ IF TextIsInvalid(b)
       THEN /\ Answer(r, 400, NoSentimentJson)
            /\ pc' = [pc EXCEPT ![r] = "done"]
            /\ UNCHANGED <<upstream, upstreamCalls>>
       ELSE /\ pc' = [pc EXCEPT ![r] = "sentimentGenerate"]
            /\ upstream' = [upstream EXCEPT ![r] = "pending"]
            /\ upstreamCalls' = [upstreamCalls EXCEPT ![r] = @ + 1]
            /\ UNCHANGED <<status, json, resEnded>>
    /\ UNCHANGED <<store, crashed, conversation, newPrompt, ollamaResponse,
                   fullResponse, received, sse, clientClosed>>

\* generateResponse resolves; the answer is parsed and either answered 500 or
\* handed to SentimentAnalysis.create
SentimentGenerateReturns(r, ok, text) ==
    /\ ~crashed
    /\ UNCHANGED <<exercici2, exercici3>>
    /\ UNCHANGED createdAt
    /\ pc[r] = "sentimentGenerate"
    /\ LET response == generateResponse(ok, text)
       IN  /\ ollamaResponse' = [ollamaResponse EXCEPT ![r] = response]
           /\ received' = [received EXCEPT ![r] = <<[ok |-> ok, response |-> text, done |-> TRUE]>>]
           /\ upstream' = [upstream EXCEPT ![r] = IF ok THEN "done" ELSE "error"]
           /\ IF ParseSentiment(response).ok
              THEN /\ pc' = [pc EXCEPT ![r] = "sentimentCreate"]
                   /\ UNCHANGED <<status, json, resEnded>>
              ELSE /\ Answer(r, 500, NoSentimentJson)
                   /\ pc' = [pc EXCEPT ![r] = "done"]
    /\ UNCHANGED <<store, crashed, kind, body, conversation, newPrompt,
                   fullResponse, upstreamCalls, sse, clientClosed>>

\* SentimentAnalysis.create resolves; the client is answered 201
SentimentCreated(r) ==
    /\ ~crashed
    /\ UNCHANGED <<exercici2, exercici3>>
    /\ UNCHANGED createdAt
    /\ pc[r] = "sentimentCreate"
    /\ LET analysisResult == ParseSentiment(ollamaResponse[r])
           rec == [id |-> Len(sentiments) + 1, text |-> body[r].text,
                   score |-> analysisResult.score,
                   sentiment |-> analysisResult.sentiment,
                   resposta_completa |-> ollamaResponse[r], createdBy |-> r]
       IN  /\ sentiments' = Append(sentiments, rec)
           /\ Answer(r, 201, [id |-> rec.id, text |-> rec.text, score |-> rec.score,
                              sentiment |-> rec.sentiment])
    /\ pc' = [pc EXCEPT ![r] = "done"]
    /\ UNCHANGED <<conversations, prompts, nextGen, crashed, kind, body,
                   conversation, newPrompt, relay, sse, clientClosed>>

\* ----------------------------------------------------------- listOllamaModels
\* The configured model name, and another one
DEFAULT_OLLAMA_MODEL == "default"
OtherModel == "other"

\* One entry of the upstream /tags list; details stands for the fields the
\* controller does not copy
TagEntries ==
    [name : {DEFAULT_OLLAMA_MODEL, OtherModel}, modified_at : {"m"}, size : {"s"},
     digest : {"d1", "d2"}, details : {"x"}]

MaxModels == 2

TagLists == UNION {[1..n -> TagEntries] : n \in 0..MaxModels}

\* Outcomes of axios.get(/tags): a list, an HTTP error status, no answer at
\* all, or an answer without a models array
TagsOutcomes ==
    [type : {"list"}, models : TagLists, status : {200}]
    \cup [type : {"http"}, models : {<<>>}, status : {404, 503}]
    \cup [type : {"network", "nolist"}, models : {<<>>}, status : {0}]

\* response.data.models.map(...), lines 22-27
Metadata(list) ==
    [k \in 1..Len(list) |->
        [name |-> list[k].name, modified_at |-> list[k].modified_at,
         size |-> list[k].size, digest |-> list[k].digest]]

\* (variant: the list is not filtered)
filteredModelsAll(models) == models

\* models.find(m => m.name === DEFAULT_OLLAMA_MODEL), then a list of that one
\* entry or of none, lines 30-31
filteredModels(models) ==
    LET hits == {k \in 1..Len(models) : models[k].name = DEFAULT_OLLAMA_MODEL}
    IN  IF hits = {} THEN <<>>
        ELSE <<models[CHOOSE k \in hits : \A j \in hits : k <= j]>>

ErrorJson == [message |-> "error"]

\* GET /models arrives; axios.get is issued
ListOllamaModels(r) ==
    /\ ~crashed
    /\ UNCHANGED <<exercici2, exercici3>>
    /\ UNCHANGED createdAt
    /\ pc[r] = "idle"
    /\ \A q \in 1..(r - 1) : pc[q] # "idle"
    /\ kind' = [kind EXCEPT ![r] = "models"]
    /\ pc' = [pc EXCEPT ![r] = "tags"]
    /\ upstream' = [upstream EXCEPT ![r] = "pending"]
    /\ UNCHANGED <<store, crashed, body, conversation, newPrompt, ollamaResponse,
                   fullResponse, received, upstreamCalls, reply, clientClosed>>

\* axios.get settles: the filtered list is answered, or the catch block
\* answers with the upstream's status or hands the error to next()
TagsReturns(r, outcome) ==
    /\ ~crashed
    /\ UNCHANGED <<exercici2, exercici3>>
    /\ UNCHANGED createdAt
    /\ pc[r] = "tags"
    /\ received' = [received EXCEPT ![r] =
                      <<[ok |-> outcome.type = "list", response |-> outcome.models,
                         done |-> TRUE]>>]
    /\ upstream' = [upstream EXCEPT ![r] = IF outcome.type = "list" THEN "done" ELSE "error"]
    /\ IF outcome.type = "list"
       THEN LET models == filteredModels(Metadata(outcome.models))
            IN  Answer(r, 200, [total_models |-> Len(models), models |-> models])
       ELSE IF outcome.type = "http"
       THEN Answer(r, outcome.status, ErrorJson)
       ELSE Answer(r, 500, ErrorJson)
    /\ pc' = [pc EXCEPT ![r] = "done"]
    /\ UNCHANGED <<store, crashed, kind, body, conversation, newPrompt,
                   ollamaResponse, fullResponse, upstreamCalls, sse, clientClosed>>

\* Identifiers a client can ask for: its own, a malformed one, or one the
\* server generates
LookupIds == ClientIds \cup {MalformedId} \cup {GenId(n) : n \in Req}

\* Everything one request can do
Step(r) ==
        \/ \E b \in PromptBodies : RegisterPrompt(r, b)
        \/ FindByPkReturns(r)
        \/ ConversationCreateReturns(r)
        \/ \E ok \in BOOLEAN, text \in FullTexts : GenerateReturns(r, ok, text)
        \/ PromptCreatedNormal(r)
        \/ PromptCreatedStreaming(r)
        \/ \E ok \in BOOLEAN : AxiosPostReturns(r, ok)
        \/ \E d \in DataEvents : OnData(r, d)
        \/ \E ok \in BOOLEAN : PromptUpdateReturns(r, ok)
        \/ OnError(r)
        \/ OnEnd(r)
        \/ ClientDisconnect(r)
        \/ \E id \in LookupIds : GetConversation(r, id)
        \/ LookupFindReturns(r)
        \/ LookupIncludeReturns(r)
        \/ \E b \in SentimentBodies : AnalyzeSentiment(r, b)
        \/ \E ok \in BOOLEAN, text \in ModelOutputs : SentimentGenerateReturns(r, ok, text)
        \/ SentimentCreated(r)
        \/ ListOllamaModels(r)
        \/ \E outcome \in TagsOutcomes : TagsReturns(r, outcome)

\* The API under concurrent requests
Next == \E r \in Req : Step(r)

Spec == Init /\ [][Next]_vars

\* One request served alone, against a store that is empty or holds what an
\* earlier non-streaming request left behind
EarlierConversation == [id |-> <<"u", 1>>, createdBy |-> 0]
EarlierPrompt ==
    [id |-> 1, ConversationId |-> <<"u", 1>>, prompt |-> <<"p">>,
     response |-> <<"a">>, stream |-> FALSE, createdAt |-> 1, createdBy |-> 0,
     updates |-> 0]

\* What a streaming and a non-streaming request made concurrently for the
\* same conversation can leave behind: the row stored first was created last
EarlierInterleaved ==
    << [EarlierPrompt EXCEPT !.createdAt = 2, !.stream = TRUE, !.updates = 1],
       [EarlierPrompt EXCEPT !.id = 2, !.prompt = <<"q">>] >>

InitOne ==
    /\ conversations \in {<<>>, <<EarlierConversation>>}
    /\ prompts \in IF conversations = <<>> THEN {<<>>}
                   ELSE {<<EarlierPrompt>>, EarlierInterleaved}
    /\ nextGen = 0
    /\ sentiments = <<>>
    /\ crashed = FALSE
    /\ kind = [r \in Req |-> "none"]
    /\ pc = [r \in Req |-> "idle"]
    /\ body = [r \in Req |-> NoBody]
    /\ conversation = [r \in Req |-> NoId]
    /\ newPrompt = [r \in Req |-> 0]
    /\ createdAt = [r \in Req |-> 0]
    /\ ollamaResponse = [r \in Req |-> <<>>]
    /\ fullResponse = [r \in Req |-> <<>>]
    /\ received = [r \in Req |-> <<>>]
    /\ upstream = [r \in Req |-> "none"]
    /\ upstreamCalls = [r \in Req |-> 0]
    /\ sse = [r \in Req |-> <<>>]
    /\ resEnded = [r \in Req |-> FALSE]
    /\ clientClosed = [r \in Req |-> FALSE]
    /\ status = [r \in Req |-> 0]
    /\ json = [r \in Req |-> NoJson]
    /\ exercici2 = Exercici2Off
    /\ exercici3 = Exercici3Off

NextOne == Step(1)

SpecOne == InitOne /\ [][NextOne]_vars

\* The awaited calls of a streaming session: Prompt.create, axios.post and
\* prompt.update each settle
Settles(r) ==
    \/ PromptCreatedStreaming(r)
    \/ \E ok \in BOOLEAN : AxiosPostReturns(r, ok)
    \/ \E ok \in BOOLEAN : PromptUpdateReturns(r, ok)

\* The same, where every awaited call of a streaming session settles and its
\* continuation is run
SpecOneLive == SpecOne /\ \A r \in Req : WF_vars(Settles(r))

\* Concurrent non-streaming prompt requests, all with the same prompt text, and
\* conversation lookups
NormalBodies == {b \in PromptBodies : ~b.stream /\ b.prompt = <<"p", Space>>}

NextNormal ==
    \E r \in Req :
        \/ \E b \in NormalBodies : RegisterPrompt(r, b)
        \/ FindByPkReturns(r)
        \/ ConversationCreateReturns(r)
        \/ \E ok \in BOOLEAN, text \in FullTexts : GenerateReturns(r, ok, text)
        \/ PromptCreatedNormal(r)
        \/ \E id \in LookupIds : GetConversation(r, id)
        \/ LookupFindReturns(r)
        \/ LookupIncludeReturns(r)

SpecNormal == Init /\ [][NextNormal]_vars

\* Concurrent streaming sessions, from the state where every request was
\* accepted without an identifier, one after the other, and has its
\* Conversation and Prompt stored, its start event written and its upstream
\* call issued
StreamBody ==
    [conversationId |-> NoId, hasPrompt |-> TRUE, prompt |-> <<"p", Space>>,
     stream |-> TRUE]

InitStreams ==
    /\ conversations = [r \in Req |-> [id |-> GenId(r), createdBy |-> r]]
    /\ prompts = [r \in Req |->
                    [id |-> r, ConversationId |-> GenId(r), prompt |-> Trim(StreamBody.prompt),
                     response |-> <<>>, stream |-> TRUE, createdAt |-> r,
                     createdBy |-> r, updates |-> 0]]
    /\ nextGen = NumReq
    /\ sentiments = <<>>
    /\ crashed = FALSE
    /\ kind = [r \in Req |-> "prompt"]
    /\ pc = [r \in Req |-> "axiosPost"]
    /\ body = [r \in Req |-> StreamBody]
    /\ conversation = [r \in Req |-> GenId(r)]
    /\ newPrompt = [r \in Req |-> r]
    /\ createdAt = [r \in Req |-> r]
    /\ ollamaResponse = [r \in Req |-> <<>>]
    /\ fullResponse = [r \in Req |-> <<>>]
    /\ received = [r \in Req |-> <<>>]
    /\ upstream = [r \in Req |-> "pending"]
    /\ upstreamCalls = [r \in Req |-> 1]
    /\ clientClosed = [r \in Req |-> FALSE]
    /\ sse = [r \in Req |-> StartEvents(r, GenId(r), r, Trim(StreamBody.prompt))]
    /\ resEnded = [r \in Req |-> FALSE]
    /\ status = [r \in Req |-> 0]
    /\ json = [r \in Req |-> NoJson]
    /\ exercici2 = Exercici2Off
    /\ exercici3 = Exercici3Off

\* Upstream lines that parse and carry text
TextEvents == {d \in DataEvents : d.ok /\ d.response # <<>>}

NextStreams ==
    \E r \in Req :
        \/ \E ok \in BOOLEAN : AxiosPostReturns(r, ok)
        \/ \E d \in TextEvents : OnData(r, d)
        \/ PromptUpdateReturns(r, TRUE)

SpecStreams == InitStreams /\ [][NextStreams]_vars

\* Concurrent sentiment requests
SomeOutputs ==
    {ObjectText(<<"7">>, <<"p">>), FencedJson(ObjectText(<<"15">>, <<"p">>)), <<"?">>}

NextSentiment ==
    \E r \in Req :
        \/ \E b \in SentimentBodies : AnalyzeSentiment(r, b)
        \/ \E ok \in BOOLEAN, text \in SomeOutputs : SentimentGenerateReturns(r, ok, text)
        \/ SentimentCreated(r)

SpecSentiment == Init /\ [][NextSentiment]_vars

\* ------------------------------------------------------- exercici2.js (batch)
\* The rows of games.csv and reviews.csv, by the application they name
AppIds == {"g1", "g2"}
MaxGames == 3
MaxReviews == 3
GameLists == UNION {[1..n -> AppIds] : n \in 0..MaxGames}
ReviewLists == UNION {[1..n -> AppIds] : n \in 0..MaxReviews}

\* Array.prototype.slice(0, 2)
FirstTwo(list) == SubSeq(list, 1, IF Len(list) < 2 THEN Len(list) ELSE 2)

\* games.slice(0, 2), line 104
firstTwoGames(games) == FirstTwo(games)

\* lines 119-127: the reviews of the game, then the first two of them
reviewsToAnalyze(reviews, appid) == FirstTwo(SelectSeq(reviews, LAMBDA id : id = appid))

\* Outcomes of the fetch of analyzeSentiment: the fetch rejects, the status is
\* not ok, the body is no JSON, the JSON has no response text, or a text of
\* words
AnswerTexts ==
    {<<"Positive", Space>>, <<"negative">>, <<"neutral", "negative">>, <<"x">>}
ReviewAnswers ==
    [type : {"network", "http", "badjson", "noresponse"}, text : {<<>>}]
    \cup [type : {"text"}, text : AnswerTexts]

\* String.prototype.toLowerCase, word by word
LowerCase(text) ==
    [k \in 1..Len(text) |-> IF text[k] = "Positive" THEN "positive" ELSE text[k]]

\* String.prototype.includes, for a whole word
Includes(text, word) == \E k \in 1..Len(text) : text[k] = word

\* analyzeSentiment of exercici2.js, lines 25-72: what it resolves with
analyzeSentiment(answer) ==
    IF answer.type # "text" THEN <<"error">>
    ELSE LET sentiment == LowerCase(Trim(answer.text))
         IN  IF Includes(sentiment, "positive") THEN <<"positive">>
             ELSE IF Includes(sentiment, "negative") THEN <<"negative">>
             ELSE IF Includes(sentiment, "neutral") THEN <<"neutral">>
             ELSE sentiment

\* (variant: a sentiment that is none of the three words is not counted)
CountedKnownOnly(statistics, sentiment) ==
    IF sentiment = <<"positive">> THEN [statistics EXCEPT !.positive = @ + 1]
    ELSE IF sentiment = <<"negative">> THEN [statistics EXCEPT !.negative = @ + 1]
    ELSE IF sentiment = <<"neutral">> THEN [statistics EXCEPT !.neutral = @ + 1]
    ELSE statistics

\* lines 145-153
Counted(statistics, sentiment) ==
    IF sentiment = <<"positive">> THEN [statistics EXCEPT !.positive = @ + 1]
    ELSE IF sentiment = <<"negative">> THEN [statistics EXCEPT !.negative = @ + 1]
    ELSE IF sentiment = <<"neutral">> THEN [statistics EXCEPT !.neutral = @ + 1]
    ELSE [statistics EXCEPT !.error = @ + 1]

\* main, lines 75-110: the environment and the files are checked and the two
\* files read; any failure ends main in its catch block
StartReviews(ok) ==
    /\ exercici2.pc = "start"
    /\ exercici2' = IF ok THEN [exercici2 EXCEPT !.pc = "game", !.gameIndex = 1]
                    ELSE [exercici2 EXCEPT !.pc = "aborted"]
    /\ UNCHANGED <<api, exercici3>>

\* The head of the loop over the games, lines 115-134, or after the last
\* game the writeFileSync of line 171
NextGame ==
    /\ exercici2.pc = "game"
    /\ exercici2' =
          IF exercici2.gameIndex > Len(firstTwoGames(exercici2.games))
          THEN [exercici2 EXCEPT !.pc = "done", !.written = @ + 1]
          ELSE [exercici2 EXCEPT !.pc = "review", !.reviewIndex = 1,
                                 !.statistics = NoStatistics]
    /\ UNCHANGED <<api, exercici3>>

\* The head of the loop over the reviews, lines 137-141: the next review is
\* sent to the upstream, or after the last one the game's statistics are
\* pushed, lines 159-163
NextReview ==
    /\ exercici2.pc = "review"
    /\ exercici2' =
          IF exercici2.reviewIndex >
                Len(reviewsToAnalyze(exercici2.reviews, exercici2.games[exercici2.gameIndex]))
          THEN [exercici2 EXCEPT
                   !.pc = "game", !.gameIndex = @ + 1,
                   !.results = Append(@, [appid |-> exercici2.games[exercici2.gameIndex],
                                          statistics |-> exercici2.statistics])]
          ELSE [exercici2 EXCEPT !.pc = "awaiting", !.fetching = @ + 1]
    /\ UNCHANGED <<api, exercici3>>

\* The awaited analyzeSentiment resolves; the statistics are updated
AnalysisReturns(answer) ==
    /\ exercici2.pc = "awaiting"
    /\ exercici2' = [exercici2 EXCEPT
                       !.pc = "review", !.fetching = @ - 1, !.lastAnswer = answer,
                       !.reviewIndex = @ + 1,
                       !.statistics = Counted(@, analyzeSentiment(answer))]
    /\ UNCHANGED <<api, exercici3>>

InitReviews ==
    /\ ApiInit
    /\ exercici2 \in {[Exercici2Off EXCEPT !.pc = "start", !.games = g, !.reviews = rv] :
                          g \in GameLists, rv \in ReviewLists}
    /\ exercici3 = Exercici3Off

NextReviews ==
    \/ \E ok \in BOOLEAN : StartReviews(ok)
    \/ NextGame
    \/ NextReview
    \/ \E answer \in ReviewAnswers : AnalysisReturns(answer)

SpecReviews == InitReviews /\ [][NextReviews]_vars

\* ------------------------------------------------------- exercici3.js (batch)
IMAGE_TYPES == {".jpg", ".jpeg", ".png", ".gif"}

\* What fs.stat finds for an entry of the images folder
EntryKinds == {"dir", "file", "statfails"}
\* A file of an animal's directory: its extension as written and whether
\* fs.readFile fails, reads no bytes or reads bytes
Files == [ext : {".JPG", ".txt"}, content : {"unreadable", "empty", "data"}]
MaxEntries == 2
MaxFiles == 2
EntryLists == UNION {[1..n -> EntryKinds] : n \in 0..MaxEntries}
FileLists == UNION {[1..n -> Files] : n \in 0..MaxFiles}

\* path.extname(imagePath).toLowerCase(), line 126
extname(file) == IF file.ext = ".JPG" THEN ".jpg" ELSE file.ext

\* imageToBase64, lines 13-21: null when the read fails, otherwise the
\* encoding of the bytes, the empty string for no bytes
imageToBase64(file) ==
    IF file.content = "unreadable" THEN [null |-> TRUE, text |-> <<>>]
    ELSE IF file.content = "empty" THEN [null |-> FALSE, text |-> <<>>]
    ELSE [null |-> FALSE, text |-> <<"QQ==">>]

\* The truth value of a string or null in a condition
Truthy(value) == ~value.null /\ value.text # <<>>

\* Outcomes of the fetch of queryOllama
ImageAnswers ==
    [type : {"network", "http"}, text : {<<>>}]
    \cup [type : {"text"}, text : SomeOutputs \cup {<<>>}]

\* queryOllama, lines 24-70: data.response, or null after any failure
queryOllama(answer) ==
    IF answer.type # "text" \/ answer.text = <<>> THEN [null |-> TRUE, text |-> <<>>]
    ELSE [null |-> FALSE, text |-> answer.text]

\* lines 185-234: the entry pushed for a file
AnalysisEntry(imageFile, response) ==
    IF ~Truthy(response) THEN [nom_fitxer |-> imageFile, analisi |-> "noResponse"]
    ELSE IF JSONparse(StripMarkdown(response.text)).syntaxOk
         THEN [nom_fitxer |-> imageFile, analisi |-> "parsed"]
         ELSE [nom_fitxer |-> imageFile, analisi |-> "parseError"]

\* main, lines 74-96: the environment and the images folder are checked and
\* the folder is listed; any failure ends main in its catch block
StartImages(ok) ==
    /\ exercici3.pc = "start"
    /\ exercici3' = IF ok THEN [exercici3 EXCEPT !.pc = "entry", !.dirIndex = 1]
                    ELSE [exercici3 EXCEPT !.pc = "aborted"]
    /\ UNCHANGED <<api, exercici2>>

\* The head of the loop over the entries, lines 99-116, or after the last
\* entry the writeFile of line 249
NextEntry ==
    /\ exercici3.pc = "entry"
    /\ exercici3' =
          IF exercici3.dirIndex > Len(exercici3.animalDirectories)
          THEN [exercici3 EXCEPT !.pc = "done", !.written = @ + 1]
          ELSE IF exercici3.animalDirectories[exercici3.dirIndex] = "dir"
               THEN [exercici3 EXCEPT !.pc = "readdir"]
               ELSE [exercici3 EXCEPT !.dirIndex = @ + 1]
    /\ UNCHANGED <<api, exercici2>>

\* fs.readdir of the animal's directory, line 119; its failure ends main
ReaddirReturns(ok) ==
    /\ exercici3.pc = "readdir"
    /\ exercici3' =
          IF ok THEN [exercici3 EXCEPT !.pc = "file", !.fileIndex = 1,
                                       !.visited = Append(@, exercici3.dirIndex)]
          ELSE [exercici3 EXCEPT !.pc = "aborted"]
    /\ UNCHANGED <<api, exercici2>>

\* The head of the loop over the files, lines 122-182, or after the last
\* file the break of line 240 and the writeFile of line 249
NextFile ==
    /\ exercici3.pc = "file"
    /\ exercici3' =
          IF exercici3.fileIndex > Len(exercici3.imageFiles)
          THEN [exercici3 EXCEPT !.pc = "done", !.written = @ + 1]
          ELSE LET imageFile == exercici3.imageFiles[exercici3.fileIndex]
               IN  IF extname(imageFile) \notin IMAGE_TYPES
                   THEN [exercici3 EXCEPT !.fileIndex = @ + 1]
                   ELSE IF Truthy(imageToBase64(imageFile))
                        THEN [exercici3 EXCEPT !.pc = "awaiting", !.fetching = @ + 1]
                        ELSE [exercici3 EXCEPT !.fileIndex = @ + 1]
    /\ UNCHANGED <<api, exercici2>>

\* The awaited queryOllama resolves; one entry is pushed, lines 185-234
OllamaReturns(answer) ==
    /\ exercici3.pc = "awaiting"
    /\ exercici3' = [exercici3 EXCEPT
                       !.pc = "file", !.fetching = @ - 1, !.fileIndex = @ + 1,
                       !.analisis = Append(@, AnalysisEntry(exercici3.fileIndex,
                                                            queryOllama(answer)))]
    /\ UNCHANGED <<api, exercici2>>

InitImages ==
    /\ ApiInit
    /\ exercici2 = Exercici2Off
    /\ exercici3 \in {[Exercici3Off EXCEPT !.pc = "start", !.animalDirectories = d,
                                            !.imageFiles = f] :
                          d \in EntryLists, f \in FileLists}

NextImages ==
    \/ \E ok \in BOOLEAN : StartImages(ok)
    \/ NextEntry
    \/ \E ok \in BOOLEAN : ReaddirReturns(ok)
    \/ NextFile
    \/ \E answer \in ImageAnswers : OllamaReturns(answer)

SpecImages == InitImages /\ [][NextImages]_vars

\* ====================================================================== C1..C5
\* The upstream chunks of a session: the well-formed 'data' events that carry
\* text (the done marker itself carries none unless the upstream puts some in)
ChunksOf(r) == SelectSeq(received[r], LAMBDA d : d.ok /\ d.response # <<>>)

FragmentsOf(r) == [i \in 1..Len(ChunksOf(r)) |-> ChunksOf(r)[i].response]

\* What the client has observed: the events written while it was connected
Observed(r) == SelectSeq(sse[r], LAMBDA e : ~e.toClosed)

TypesOf(events) == [i \in 1..Len(events) |-> events[i].type]

\* The upstream signalled completion and the relay finished handling it
Finalized(r) == pc[r] = "finalized"

\* C1: in a streaming session whose upstream produced N chunks and then
\* signalled completion (and whose client stayed connected), the client has
\* observed the start event, exactly the N chunk events in upstream order and
\* one end event, and the persisted Prompt's response is the concatenation of
\* the N fragments.
C1_StreamRelayedInOrder ==
    \A r \in Req :
        (Finalized(r) /\ ~clientClosed[r]) =>
            LET obs == Observed(r)
                n == Len(ChunksOf(r))
            IN  /\ Len(obs) = n + 2
                /\ obs[1].type = "start"
                /\ \A i \in 1..n :
                      /\ obs[i + 1].type = "chunk"
                      /\ obs[i + 1].text = FragmentsOf(r)[i]
                /\ obs[n + 2].type = "end"
                /\ prompts[newPrompt[r]].response = Concat(FragmentsOf(r))

C1_Witness ==
    \E r \in Req :
        /\ Finalized(r)
        /\ ~clientClosed[r]
        /\ FragmentsOf(r) = <<<<"a">>, <<"b">>>>

\* C2: the events written to the client of a session are always a prefix of
\* start, chunk*, (end | error): the first is the start event, a terminal
\* event is the last one written, and at most one is written.
C2_EventGrammar ==
    \A r \in Req :
        LET t == TypesOf(sse[r])
        IN  /\ t # <<>> => t[1] = "start"
            /\ \A i \in 2..Len(t) :
                  \/ t[i] = "chunk"
                  \/ i = Len(t) /\ t[i] \in {"end", "error"}
            /\ (\E i \in 1..Len(t) : t[i] \in {"end", "error"}) => resEnded[r]

C2_Witness ==
    \E r \in Req :
        /\ TypesOf(sse[r]) = <<"start", "chunk", "chunk", "end">>
        /\ resEnded[r]

\* C3 (as claimed): once the upstream stream has errored mid-stream, the relay
\* has written an error event, has ended the client response and the Prompt's
\* response text is empty.
C3_MidStreamErrorReported ==
    \A r \in Req :
        (pc[r] = "streaming" /\ upstream[r] = "error") =>
            /\ sse[r][Len(sse[r])].type = "error"
            /\ resEnded[r]
            /\ prompts[newPrompt[r]].response = <<>>

PromptsCreatedBy(r) == {i \in 1..Len(prompts) : prompts[i].createdBy = r}

\* C4: a non-streaming request whose upstream call failed is answered 201 with
\* the apology text, after exactly one upstream call, and exactly one Prompt
\* of the request is persisted, holding that text.

C4_NormalFailureDegrades ==
    \A r \in Req :
        (kind[r] = "prompt" /\ ~body[r].stream /\ upstream[r] = "error" /\ pc[r] = "done") =>
            /\ status[r] = 201
            /\ json[r].response = Apology
            /\ PromptsCreatedBy(r) = {newPrompt[r]}
            /\ prompts[newPrompt[r]].response = Apology
            /\ upstreamCalls[r] = 1

C4_Witness ==
    \E r \in Req :
        /\ kind[r] = "prompt" /\ ~body[r].stream
        /\ upstream[r] = "error" /\ pc[r] = "done"
        /\ Cardinality(PromptsCreatedBy(r)) = 1

\* C5 (as claimed): no event is written to a client connection that is already
\* closed, and a session finalized after its client left has persisted the
\* accumulated text.
C5_NoWriteAfterDisconnect ==
    \A r \in Req :
        /\ \A i \in 1..Len(sse[r]) :
              sse[r][i].type \in {"chunk", "end"} => ~sse[r][i].toClosed
        /\ (Finalized(r) /\ clientClosed[r]) =>
              prompts[newPrompt[r]].response = fullResponse[r]

\* ===================================================================== C6..C10
ConversationsWithId(convs, id) == {i \in 1..Len(convs) : convs[i].id = id}

ConversationsCreatedBy(r) == {i \in 1..Len(conversations) : conversations[i].createdBy = r}

C7_OneConversationPerId ==
    \A i, j \in 1..Len(conversations) :
        conversations[i].id = conversations[j].id => i = j

\* two requests raced on the same unknown identifier: both were sent to create
C7_Witness ==
    \E r, q \in Req :
        /\ r # q
        /\ kind[r] = "prompt" /\ kind[q] = "prompt"
        /\ body[r].conversationId \in ClientIds
        /\ body[q].conversationId = body[r].conversationId
        /\ ConversationsCreatedBy(r) # {}
        /\ status[q] = 500

\* C8 (as claimed): every prompt request that passed validation with a supplied
\* identifier completes with 201 and its Prompt attached to the Conversation of
\* that identifier, the loser of a creation race included.
C8_RaceLoserUsesWinner ==
    \A r \in Req :
        (kind[r] = "prompt" /\ pc[r] = "done" /\ status[r] # 400
            /\ body[r].conversationId \in ClientIds) =>
            /\ status[r] = 201
            /\ newPrompt[r] # 0
            /\ prompts[newPrompt[r]].ConversationId = body[r].conversationId

\* A prompt that is missing, empty or whitespace-only
BlankPrompt(b) == ~b.hasPrompt \/ b.prompt \in {<<>>, <<Space>>}

\* C9: a prompt request whose prompt is missing, empty or whitespace-only has
\* been answered 400 and is over, has issued no upstream call and has created
\* no Conversation and no Prompt.

C9_EmptyPromptRejected ==
    \A r \in Req :
        (kind[r] = "prompt" /\ BlankPrompt(body[r])) =>
            /\ status[r] = 400 /\ pc[r] = "done"
            /\ upstreamCalls[r] = 0 /\ upstream[r] = "none"
            /\ ConversationsCreatedBy(r) = {}
            /\ PromptsCreatedBy(r) = {}

C9_Witness ==
    \E r \in Req :
        /\ kind[r] = "prompt" /\ body[r].hasPrompt /\ body[r].prompt = <<Space>>
        /\ status[r] = 400
        /\ conversations # <<>>

\* C10: a prompt request carrying a malformed identifier has been answered 400
\* and is over, has issued no upstream call and has created no Conversation
\* and no Prompt.
C10_MalformedIdRejected ==
    \A r \in Req :
        (kind[r] = "prompt" /\ body[r].conversationId = MalformedId) =>
            /\ status[r] = 400 /\ pc[r] = "done"
            /\ upstreamCalls[r] = 0 /\ upstream[r] = "none"
            /\ ConversationsCreatedBy(r) = {}
            /\ PromptsCreatedBy(r) = {}
            /\ ConversationsWithId(conversations, MalformedId) = {}

C10_Witness ==
    \E r \in Req :
        /\ kind[r] = "prompt" /\ body[r].conversationId = MalformedId
        /\ ~BlankPrompt(body[r])
        /\ status[r] = 400
        /\ conversations # <<>>

\* ==================================================================== C11..C14
\* The raw text the upstream answered to a sentiment request
RawAnswer(r) == received[r][1].response

SentimentsCreatedBy(r) == {i \in 1..Len(sentiments) : sentiments[i].createdBy = r}

\* C11: every persisted SentimentRecord has a score within [0,10]; the record
\* made from an answer whose score is n holds 10 when n > 10, 0 when n < 0 and
\* n otherwise, and so does the answer to the client.
C11_ScoreClamped ==
    /\ \A i \in 1..Len(sentiments) : sentiments[i].score \in 0..10
    /\ \A r \in Req : \A n \in NumberAtoms :
          (kind[r] = "sentiment" /\ status[r] = 201
              /\ RawAnswer(r) \in {ObjectText(<<n>>, <<"p">>),
                                   FencedJson(ObjectText(<<n>>, <<"p">>))}) =>
              LET raw == NumberOf[n]
                  want == IF raw > 10 THEN 10 ELSE IF raw < 0 THEN 0 ELSE raw
              IN  /\ \A i \in SentimentsCreatedBy(r) : sentiments[i].score = want
                  /\ json[r].score = want

C11_Witness ==
    \E r \in Req :
        /\ kind[r] = "sentiment" /\ status[r] = 201
        /\ RawAnswer(r) = ObjectText(<<"15">>, <<"p">>)
        /\ \E i \in SentimentsCreatedBy(r) : sentiments[i].score = 10

\* Answers that are no object, or an object without a numeric score or without
\* a label, bare or fenced
Unusable ==
    {ObjectText(sc, lb) : sc \in {<<>>, <<StringScore>>}, lb \in {<<>>, <<"p">>}}
    \cup {ObjectText(<<n>>, <<>>) : n \in NumberAtoms}

UnusableAnswers ==
    Unusable \cup {FencedJson(t) : t \in Unusable} \cup {FencedPlain(t) : t \in Unusable}
    \cup {<<"null">>, <<"?">>, <<Space, "?">>}

\* C12: a sentiment request whose upstream call failed, or whose upstream
\* answer is unusable, has been answered 500 and is over, with no
\* SentimentRecord of its own and exactly one upstream call issued.
C12_UnparsableAnswers500 ==
    \A r \in Req :
        (kind[r] = "sentiment" /\ received[r] # <<>>
            /\ (upstream[r] = "error" \/ RawAnswer(r) \in UnusableAnswers)) =>
            /\ status[r] = 500 /\ pc[r] = "done"
            /\ SentimentsCreatedBy(r) = {}
            /\ upstreamCalls[r] = 1

C12_Witness ==
    \E r \in Req :
        /\ kind[r] = "sentiment" /\ status[r] = 500
        /\ upstream[r] = "done"
        /\ RawAnswer(r) = FencedJson(ObjectText(<<"7">>, <<>>))

\* A request body whose text is missing, not a string, empty or blank
UnacceptableText(b) == ~(b.hasText /\ b.isString /\ b.text = <<"t">>)

\* C13: no step changes or removes an existing SentimentRecord; after every
\* step a sentiment request answered 201 has exactly one record of its own and
\* every other sentiment request has none; a request whose text is missing,
\* not a string, empty or blank is answered 400 without an upstream call.
C13_OneRecordPerRequest ==
    [][/\ Len(sentiments') >= Len(sentiments)
       /\ \A i \in 1..Len(sentiments) : sentiments'[i] = sentiments[i]
       /\ \A r \in Req :
             kind'[r] = "sentiment" =>
                /\ Cardinality({i \in 1..Len(sentiments') : sentiments'[i].createdBy = r})
                      = IF status'[r] = 201 THEN 1 ELSE 0
                /\ status'[r] \in {0, 201, 400, 500}
                /\ UnacceptableText(body'[r]) =>
                      (status'[r] = 400 /\ upstreamCalls'[r] = 0)
      ]_vars

C13_Witness ==
    \E r, q \in Req :
        /\ r # q
        /\ kind[r] = "sentiment" /\ kind[q] = "sentiment"
        /\ status[r] = 201 /\ status[q] = 201
        /\ Len(sentiments) = 2

\* C14 (as claimed): a request whose upstream answer is an object inside a
\* code fence ends as the same object without the fence would: answered 201
\* exactly when the bare object parses, with the same score and sentiment.
C14_FencedParsesAsBare ==
    \A r \in Req : \A t \in ObjectTexts :
        (kind[r] = "sentiment" /\ pc[r] = "done" /\ upstream[r] = "done"
            /\ RawAnswer(r) \in {FencedJson(t), FencedPlain(t)}) =>
            LET bare == ParseSentiment(t)
            IN  /\ (status[r] = 201) = bare.ok
                /\ bare.ok => (json[r].score = bare.score /\ json[r].sentiment = bare.sentiment)

\* ==================================================================== C15..C16
\* The stored Prompt rows of a conversation, as a set
StoredPromptsOf(id) ==
    {prompts[i] : i \in {j \in 1..Len(prompts) : prompts[j].ConversationId = id}}

\* C15: whenever a conversation lookup is answered 200, the Prompts it returns
\* are exactly the stored Prompts of that conversation, each once, in ascending
\* order of createdAt, whatever their order in the store.
C15_PromptsByCreationTime ==
    [][\A r \in Req :
          (kind'[r] = "lookup" /\ status[r] = 0 /\ status'[r] = 200) =>
              LET ps == json'[r].Prompts
                  id == body'[r].conversationId
              IN  /\ {ps[k] : k \in 1..Len(ps)} = StoredPromptsOf(id)
                  /\ Len(ps) = Cardinality(StoredPromptsOf(id))
                  /\ \A k \in 1..(Len(ps) - 1) : ps[k].createdAt <= ps[k + 1].createdAt
      ]_vars

C15_Witness ==
    \E r \in Req :
        /\ kind[r] = "lookup" /\ status[r] = 200
        /\ Len(json[r].Prompts) = 2
        /\ json[r].Prompts[1].id > json[r].Prompts[2].id
        /\ json[r].Prompts[1].stream # json[r].Prompts[2].stream

\* C16: every step of a conversation lookup leaves the three tables as they
\* were, and the step that answers it answers 400 when the identifier is
\* malformed, 404 when it is well formed and no Conversation has it, and 200
\* otherwise.
C16_LookupReadsOnly ==
    [][\A r \in Req :
          (kind'[r] = "lookup" /\ pc'[r] # pc[r]) =>
              /\ conversations' = conversations
              /\ prompts' = prompts
              /\ sentiments' = sentiments
              /\ status'[r] # status[r] =>
                    status'[r] = IF body'[r].conversationId = MalformedId THEN 400
                                 ELSE IF body'[r].conversationId \notin ConversationIds THEN 404
                                 ELSE 200
      ]_vars

C16_Witness ==
    \E r \in Req :
        /\ kind[r] = "lookup" /\ status[r] = 404
        /\ body[r].conversationId \notin ConversationIds
        /\ Len(conversations) = 1

\* ==================================================================== C17
\* A request that passed validation and whose handler is over
AcceptedAndOver(r) ==
    /\ kind[r] \in {"prompt", "sentiment"}
    /\ pc[r] = "done"
    /\ status[r] # 400

\* C17 (as claimed): no prompt or sentiment request ever issues a second
\* upstream generate call, and every such request that passed validation has
\* issued exactly one by the time its handler is over.
C17_ExactlyOneUpstreamCall ==
    \A r \in Req :
        /\ upstreamCalls[r] <= 1
        /\ AcceptedAndOver(r) => upstreamCalls[r] = 1

\* ==================================================================== C18
\* C18: a non-streaming prompt request never has more than one Prompt and is
\* not answered before its Prompt is stored; once its upstream call has
\* succeeded and its handler is over it is answered 201, exactly one Prompt of
\* its own is stored, that Prompt's response is the upstream text without its
\* leading and trailing white space, and the response field of the answer is
\* that stored text.
C18_NormalPersistsThenAnswers ==
    \A r \in Req :
        (kind[r] = "prompt" /\ ~body[r].stream) =>
            /\ Cardinality(PromptsCreatedBy(r)) <= 1
            /\ status[r] = 201 => PromptsCreatedBy(r) # {}
            /\ (upstream[r] = "done" /\ pc[r] = "done") =>
                  /\ status[r] = 201
                  /\ \E i \in 1..Len(prompts) :
                        /\ PromptsCreatedBy(r) = {i}
                        /\ prompts[i].response = Trim(RawAnswer(r))
                        /\ prompts[i].updates = 0
                        /\ json[r].response = prompts[i].response
                        /\ json[r].promptId = prompts[i].id

C18_Witness ==
    \E r \in Req :
        /\ kind[r] = "prompt" /\ ~body[r].stream
        /\ upstream[r] = "done" /\ status[r] = 201
        /\ RawAnswer(r) = <<Space, "a", Space>>
        /\ \E i \in PromptsCreatedBy(r) : prompts[i].response = <<"a">>

\* ==================================================================== C19
\* C19: no step removes or changes a Conversation; a step of a prompt request
\* whose identifier some Conversation already has adds no Conversation; when
\* that step is the request's find, the request goes on with that Conversation
\* unanswered; and the Prompt such a step stores belongs to the Conversation
\* with that identifier.
C19_ExistingConversationReused ==
    [][/\ Len(conversations') >= Len(conversations)
       /\ \A i \in 1..Len(conversations) : conversations'[i] = conversations[i]
       /\ \A r \in Req :
             (kind'[r] = "prompt" /\ pc'[r] # pc[r]
                 /\ body'[r].conversationId \in ConversationIds) =>
                /\ conversations' = conversations
                /\ pc[r] = "findByPk" => (conversation'[r] = body'[r].conversationId
                                             /\ status'[r] = 0)
                /\ \A i \in (Len(prompts) + 1)..Len(prompts') :
                      /\ prompts'[i].createdBy = r
                      /\ prompts'[i].ConversationId = body'[r].conversationId
      ]_vars

C19_Witness ==
    \E r \in Req :
        /\ kind[r] = "prompt" /\ body[r].stream
        /\ body[r].conversationId = EarlierConversation.id
        /\ conversations = <<EarlierConversation>>
        /\ newPrompt[r] # 0
        /\ prompts[newPrompt[r]].ConversationId = EarlierConversation.id

\* ==================================================================== C20
\* C20: a model listing whose upstream call returned a list is answered 200
\* with a list of one entry, the name, modification time, size and digest of
\* an upstream entry named as the configured default, when the upstream list
\* has such an entry, and with the empty list when it has none; total_models
\* is the length of the answered list.  A listing whose upstream call failed
\* is answered with an error status.
C20_OnlyDefaultModelListed ==
    \A r \in Req :
        (kind[r] = "models" /\ pc[r] = "done") =>
            IF received[r][1].ok
            THEN LET list == received[r][1].response
                     named == {k \in 1..Len(list) : list[k].name = DEFAULT_OLLAMA_MODEL}
                 IN  /\ status[r] = 200
                     /\ json[r].total_models = Len(json[r].models)
                     /\ \A k \in 1..Len(json[r].models) :
                           json[r].models[k].name = DEFAULT_OLLAMA_MODEL
                     /\ named = {} => json[r].models = <<>>
                     /\ named # {} =>
                           /\ Len(json[r].models) = 1
                           /\ \E k \in named :
                                 json[r].models[1] =
                                    [name |-> list[k].name,
                                     modified_at |-> list[k].modified_at,
                                     size |-> list[k].size, digest |-> list[k].digest]
            ELSE status[r] \in {404, 500, 503} /\ json[r] = ErrorJson

C20_Witness ==
    \E r \in Req :
        /\ kind[r] = "models" /\ status[r] = 200
        /\ Len(received[r][1].response) = 2
        /\ received[r][1].response[1].name = OtherModel
        /\ received[r][1].response[2].name = DEFAULT_OLLAMA_MODEL
        /\ Len(json[r].models) = 1

\* ==================================================================== C21
\* The upstream of a streaming session has stopped: done marker, error, or
\* end of the stream without a done marker
UpstreamStopped(r) ==
    /\ kind[r] = "prompt" /\ body[r].stream
    /\ newPrompt[r] # 0
    /\ upstream[r] \in {"done", "error", "ended"}

TerminalEventWritten(r) == \E k \in 1..Len(sse[r]) : sse[r][k].type \in {"end", "error"}

\* C21 (as claimed): once the upstream of a streaming session has signalled
\* completion, failed or closed its stream, the session eventually has a
\* terminal event (end or error) written and its client connection closed.
C21_StoppedUpstreamTerminates ==
    \A r \in Req : UpstreamStopped(r) ~> (TerminalEventWritten(r) /\ resEnded[r])

\* ==================================================================== C22..C23
Streaming(r) == kind[r] = "prompt" /\ body[r].stream

EndEvents(r) == {k \in 1..Len(sse[r]) : sse[r][k].type = "end"}

\* C22: at every step of a streaming session, a Prompt of the session is
\* stored with empty response text while no event has been written; once an
\* event has been written, the Prompt of the session exists, the first event
\* is the only start event and carries the conversation's identifier, the
\* Prompt's identifier and the trimmed prompt text; and no upstream call has
\* been issued while no event has been written.
C22_PromptThenStartThenCall ==
    [][\A r \in Req :
          (kind'[r] = "prompt" /\ body'[r].stream) =>
              /\ \A i \in (Len(prompts) + 1)..Len(prompts') :
                    prompts'[i].createdBy = r =>
                        (prompts'[i].response = <<>> /\ prompts'[i].stream /\ sse[r] = <<>>)
              /\ sse'[r] # <<>> =>
                    /\ newPrompt'[r] \in 1..Len(prompts')
                    /\ sse'[r][1].type = "start"
                    /\ sse'[r][1].conversationId = conversation'[r]
                    /\ sse'[r][1].conversationId = prompts'[newPrompt'[r]].ConversationId
                    /\ sse'[r][1].promptId = newPrompt'[r]
                    /\ sse'[r][1].text = prompts'[newPrompt'[r]].prompt
                    /\ \A k \in 2..Len(sse'[r]) : sse'[r][k].type # "start"
              /\ sse'[r] = <<>> => upstreamCalls'[r] = 0
              /\ upstreamCalls[r] = 0 => \A k \in 1..Len(sse'[r]) : sse'[r][k].type # "chunk"
      ]_vars

C22_Witness ==
    \E r \in Req :
        /\ Streaming(r)
        /\ Len(sse[r]) >= 2
        /\ sse[r][1].type = "start" /\ sse[r][1].promptId = newPrompt[r]
        /\ sse[r][2].type = "chunk"
        /\ upstreamCalls[r] = 1

\* C23: in a streaming session there is at most one end event and it is the
\* last event; when it is written the response is ended, the Prompt has been
\* updated once and its response is the text the end event carries, the
\* accumulated text; while the update is pending no end event is written and
\* the response is not ended; after a failed update there is no end event; and
\* after a done marker the response is ended only with an end event written.
C23_UpdateThenEndThenClose ==
    \A r \in Req :
        Streaming(r) =>
            /\ Cardinality(EndEvents(r)) <= 1
            /\ \A k \in EndEvents(r) :
                  /\ k = Len(sse[r])
                  /\ resEnded[r]
                  /\ prompts[newPrompt[r]].updates = 1
                  /\ prompts[newPrompt[r]].response = sse[r][k].text
                  /\ sse[r][k].text = fullResponse[r]
                  /\ sse[r][k].promptId = newPrompt[r]
            /\ pc[r] = "update" => (EndEvents(r) = {} /\ ~resEnded[r])
            /\ pc[r] = "rejected" =>
                  (EndEvents(r) = {} /\ prompts[newPrompt[r]].response = <<>>)
            /\ (upstream[r] = "done" /\ resEnded[r]) => EndEvents(r) # {}

C23_Witness ==
    \E r \in Req :
        /\ Streaming(r)
        /\ EndEvents(r) # {}
        /\ prompts[newPrompt[r]].response = <<"a", "b">>

\* ==================================================================== C24..C25
\* The inference call of a prompt request is over and so is its handler
InferenceCompleted(r) ==
    IF body[r].stream
    THEN upstream[r] = "done" /\ pc[r] = "finalized"
    ELSE upstream[r] \in {"done", "error"} /\ pc[r] = "done"

\* C24 (as claimed): a prompt request has its Prompt stored from the moment
\* its upstream call is issued, and the Prompt has been updated exactly once
\* when the inference call of its request has completed and not at all before.
C24_CreatedThenMutatedOnce ==
    \A r \in Req :
        kind[r] = "prompt" =>
            /\ upstreamCalls[r] > 0 => PromptsCreatedBy(r) # {}
            /\ \A i \in PromptsCreatedBy(r) :
                  prompts[i].updates = IF InferenceCompleted(r) THEN 1 ELSE 0

\* C24 (amended): no step removes a Prompt; a step changes at most Prompts that
\* are streamed and not yet updated, by setting the response to the text its
\* session accumulated when the update after the done marker succeeds; a
\* streamed Prompt is stored with empty response before its upstream call is
\* issued; a non-streamed Prompt is stored only after its upstream call
\* returned, holding the response already, and is never updated.
C24_UpdatedAtMostOnce ==
    [][/\ Len(prompts') >= Len(prompts)
       /\ \A i \in 1..Len(prompts) :
             \/ prompts'[i] = prompts[i]
             \/ /\ prompts[i].stream /\ prompts[i].updates = 0
                /\ \E r \in Req :
                      /\ newPrompt[r] = i /\ prompts[i].createdBy = r
                      /\ pc[r] = "update" /\ upstream[r] = "done"
                      /\ prompts'[i] = [prompts[i] EXCEPT !.response = fullResponse[r],
                                                          !.updates = 1]
       /\ \A i \in (Len(prompts) + 1)..Len(prompts') :
             LET r == prompts'[i].createdBy
             IN  /\ prompts'[i].updates = 0
                 /\ prompts'[i].stream = body[r].stream
                 /\ prompts'[i].stream =>
                       (prompts'[i].response = <<>> /\ upstreamCalls[r] = 0)
                 /\ ~prompts'[i].stream =>
                       /\ upstream[r] \in {"done", "error"}
                       /\ prompts'[i].response = ollamaResponse[r]
      ]_vars

C24_Witness ==
    \E r \in Req :
        /\ Streaming(r) /\ pc[r] = "finalized"
        /\ prompts[newPrompt[r]].updates = 1
        /\ prompts[newPrompt[r]].response = <<"b">>
        /\ Len(prompts) > 1

\* C25 (as claimed): the response text of a stored Prompt is empty exactly
\* when the inference call of its request has not completed.
C25_EmptyIffNotCompleted ==
    \A r \in Req :
        kind[r] = "prompt" =>
            \A i \in PromptsCreatedBy(r) :
                (prompts[i].response = <<>>) <=> ~InferenceCompleted(r)

\* ==================================================================== C26
\* The fragments carried by the chunk events written so far, in order
ChunkEvents(r) == SelectSeq(sse[r], LAMBDA e : e.type = "chunk")

WrittenFragments(r) == [k \in 1..Len(ChunkEvents(r)) |-> ChunkEvents(r)[k].text]

\* C26: in every state of a streaming session the accumulator is the
\* concatenation, in order, of the fragments of the chunk events written so
\* far, which are the non-empty fragments received so far.
C26_AccumulatorIsWrittenChunks ==
    \A r \in Req :
        Streaming(r) =>
            /\ fullResponse[r] = Concat(WrittenFragments(r))
            /\ WrittenFragments(r) = FragmentsOf(r)

C26_Witness ==
    \E r \in Req :
        /\ Streaming(r) /\ pc[r] = "streaming"
        /\ WrittenFragments(r) = << <<"b">>, <<"a">> >>
        /\ fullResponse[r] = <<"b", "a">>

\* ==================================================================== C28
\* C28: a streaming session whose upstream call was refused has had exactly
\* two events written, the start event and then an error event, both seen by
\* a client that stayed connected; its response is ended, no fragment was
\* received, and its Prompt still has the empty response it was created with.
C28_RefusedCallReported ==
    \A r \in Req :
        (Streaming(r) /\ upstream[r] = "error" /\ received[r] = <<>>
            /\ pc[r] # "streaming") =>
            /\ TypesOf(sse[r]) = <<"start", "error">>
            /\ ~clientClosed[r] => TypesOf(Observed(r)) = <<"start", "error">>
            /\ resEnded[r]
            /\ upstreamCalls[r] = 1
            /\ prompts[newPrompt[r]].response = <<>>
            /\ prompts[newPrompt[r]].updates = 0

C28_Witness ==
    \E r \in Req :
        /\ Streaming(r) /\ pc[r] = "failed"
        /\ ~clientClosed[r]
        /\ Len(sse[r]) = 2 /\ sse[r][2].type = "error"

\* ==================================================================== C27
\* C27: with streaming sessions running concurrently, every event written to
\* a session's client that carries identifiers carries those of that
\* session, the fragments of its chunk events are the fragments its own
\* upstream delivered, in order, and its Prompt is its own, empty until the
\* session is finalized and then the concatenation of its own fragments.
C27_SessionsDoNotMix ==
    \A r \in Req :
        Streaming(r) =>
            /\ \A k \in 1..Len(sse[r]) :
                  sse[r][k].type # "error" =>
                      /\ sse[r][k].promptId = newPrompt[r]
                      /\ sse[r][k].conversationId = conversation[r]
            /\ WrittenFragments(r) = FragmentsOf(r)
            /\ newPrompt[r] # 0 =>
                  /\ prompts[newPrompt[r]].createdBy = r
                  /\ prompts[newPrompt[r]].ConversationId = conversation[r]
                  /\ prompts[newPrompt[r]].response =
                        IF pc[r] = "finalized" THEN Concat(FragmentsOf(r)) ELSE <<>>

C27_Witness ==
    \E r, q \in Req :
        /\ r # q
        /\ pc[r] = "finalized" /\ pc[q] = "finalized"
        /\ prompts[newPrompt[r]].response = <<"a", "a">>
        /\ prompts[newPrompt[q]].response = <<"b", "b">>

\* ==================================================================== C29
Total(statistics) ==
    statistics.positive + statistics.negative + statistics.neutral + statistics.error

\* The number of reviews of the j-th game that are analysed: its matching
\* reviews, two at most
Analysed(e, j) ==
    LET matching == Cardinality({i \in 1..Len(e.reviews) : e.reviews[i] = e.games[j]})
    IN  IF matching < 2 THEN matching ELSE 2

\* An answer that failed or names none of the three sentiments
Unclassifiable(answer) ==
    \/ answer.type # "text"
    \/ \A k \in 1..Len(answer.text) :
          answer.text[k] \notin {"positive", "Positive", "negative", "neutral"}

\* C29: after every step of the review script at most one upstream call is
\* in flight; the results hold, in order, entries for games among the first
\* two only, each with counters that add up to the number of its reviews
\* analysed, its matching reviews or two of them at most; while a game is
\* processed its counters add up to the reviews analysed so far; an answer
\* that failed or is unclassifiable raises the error counter alone and the
\* script goes on with the next review; and the script ends with one entry
\* per game of the first two and the result file written once.
C29_ReviewBatchCounts ==
    [][LET e == exercici2'
       IN  /\ e.fetching \in {0, 1}
           /\ e.fetching = 1 <=> e.pc = "awaiting"
           /\ Len(e.results) <= 2 /\ Len(e.results) <= Len(e.games)
           /\ \A j \in 1..Len(e.results) :
                 /\ e.results[j].appid = e.games[j]
                 /\ Total(e.results[j].statistics) = Analysed(e, j)
           /\ e.pc \in {"review", "awaiting"} =>
                 /\ e.gameIndex <= 2 /\ e.gameIndex = Len(e.results) + 1
                 /\ Total(e.statistics) = e.reviewIndex - 1
                 /\ e.reviewIndex - 1 <= Analysed(e, e.gameIndex)
           /\ exercici2.pc = "awaiting" =>
                 /\ e.pc = "review"
                 /\ Total(e.statistics) = Total(exercici2.statistics) + 1
                 /\ Unclassifiable(e.lastAnswer) <=>
                       e.statistics.error = exercici2.statistics.error + 1
           /\ e.written = IF e.pc = "done" THEN 1 ELSE 0
           /\ e.pc = "done" =>
                 Len(e.results) = IF Len(e.games) < 2 THEN Len(e.games) ELSE 2
      ]_vars

C29_Witness ==
    /\ exercici2.pc = "done"
    /\ Len(exercici2.games) = 3
    /\ Len(exercici2.results) = 2
    /\ exercici2.results[1].statistics.error = 1
    /\ exercici2.results[1].statistics.positive = 1
    /\ Cardinality({i \in 1..Len(exercici2.reviews) :
                       exercici2.reviews[i] = exercici2.games[1]}) = 3

\* ==================================================================== C30
\* The files of a listing, by position, that have an allowed extension and
\* are read without failure
ReadableImages(imageFiles) ==
    SelectSeq([k \in 1..Len(imageFiles) |-> k],
              LAMBDA k : /\ extname(imageFiles[k]) \in IMAGE_TYPES
                         /\ imageFiles[k].content # "unreadable")

\* C30: when the image script has ended, only the first entry that is a
\* directory was processed, the analysis list holds exactly one entry, of
\* one of the three kinds, for every file of it that has an allowed
\* extension and was read successfully, in listing order, and the result
\* file was written once.
C30_OneEntryPerReadableImage ==
    exercici3.pc = "done" =>
        LET e == exercici3
            dirs == {i \in 1..Len(e.animalDirectories) : e.animalDirectories[i] = "dir"}
            expected == IF dirs = {} THEN <<>> ELSE ReadableImages(e.imageFiles)
        IN  /\ e.written = 1
            /\ Len(e.visited) <= 1
            /\ \A n \in 1..Len(e.visited) : \A i \in dirs : e.visited[n] <= i
            /\ Len(e.analisis) = Len(expected)
            /\ \A n \in 1..Len(e.analisis) :
                  /\ n <= Len(expected) => e.analisis[n].nom_fitxer = expected[n]
                  /\ e.analisis[n].analisi \in {"parsed", "parseError", "noResponse"}

====
